---------------------------- MODULE Spec2Model ----------------------------
(***************************************************************************)
(* Model of bedrock-test-script.py: the timing harness (time_operation),   *)
(* the three timed stages (initialize_client, invoke_model,                *)
(* parse_response), the iteration loop run_timing_test, print_summary and  *)
(* the driver main.                                                        *)
(*                                                                         *)
(* Python floats are modelled as binary floating-point numbers with        *)
(* FloatBits bits of precision, round-to-nearest, ties-to-even, on the     *)
(* grid of the integers (the unit is one clock tick).  Python strings are  *)
(* sequences of one-character strings.  A decoded JSON value is a record   *)
(* with a kind and one field per kind.                                     *)
(***************************************************************************)
EXTENDS Integers, Sequences, FiniteSets, TLC

VARIABLES
    pc,           \* position of the driver: which statement runs next
    iterations,   \* args.iterations
    model_id,     \* args.model
    i,            \* the loop variable of run_timing_test
    client,       \* the local `client` of run_timing_test (Unbound before line 126)
    handles,      \* number of client objects created so far by boto3
    clock_ns,     \* the monotonic clock behind time.perf_counter, in ticks
    request,      \* the body last sent by invoke_model
    response,     \* the raw response last returned by invoke_model
    parsed,       \* (content, input_tokens, output_tokens) of the last parse
    timings,      \* the dict `timings` of the current iteration
    all_timings,  \* the list `all_timings`
    summary,      \* the rows print_summary added to its table
    events,       \* the calls made so far, in order
    exit_code     \* what main returned (NoExit while it runs)

vars == <<pc, iterations, model_id, i, client, handles, clock_ns, request,
          response, parsed, timings, all_timings, summary, events, exit_code>>

-----------------------------------------------------------------------------
(* Bounds of the model *)

MaxIterations == 3
FloatBits == 4

-----------------------------------------------------------------------------
(* Python floats *)

RECURSIVE Pow2(_)
Pow2(n) == IF n = 0 THEN 1 ELSE 2 * Pow2(n - 1)

Abs(x) == IF x < 0 THEN -x ELSE x

\* The spacing of the floats around num/den >= 0: the least power of two u
\* with num/den < 2^FloatBits * u.
RECURSIVE SpacingFrom(_, _, _)
SpacingFrom(num, den, u) ==
    IF num < Pow2(FloatBits) * u * den THEN u ELSE SpacingFrom(num, den, 2 * u)

\* num/den >= 0 rounded to the nearest float, ties to the even mantissa.
RoundNonNeg(num, den) ==
    LET u  == SpacingFrom(num, den, 1)
        lo == (num \div (u * den)) * u
        hi == lo + u
        twiceRest == 2 * (num - lo * den)
    IN  IF twiceRest < u * den THEN lo
        ELSE IF twiceRest > u * den THEN hi
        ELSE IF (lo \div u) % 2 = 0 THEN lo ELSE hi

\* The float nearest to the rational num/den (den > 0).
Fl(num, den) == IF num < 0 THEN -RoundNonNeg(-num, den) ELSE RoundNonNeg(num, den)

FAdd(a, b) == Fl(a + b, 1)
FSub(a, b) == Fl(a - b, 1)
FMul(a, b) == Fl(a * b, 1)
FDiv(a, n) == Fl(a, n)

-----------------------------------------------------------------------------
(* Python strings: sequences of one-character strings *)

claude == <<"c", "l", "a", "u", "d", "e">>
titan == <<"t", "i", "t", "a", "n">>

\* needle in hay
Contains(needle, hay) ==
    \E k \in 1..(Len(hay) - Len(needle) + 1) :
        SubSeq(hay, k, k + Len(needle) - 1) = needle

RECURSIVE Join(_, _)
\* sep.join(parts)
Join(parts, sep) ==
    IF parts = <<>> THEN <<>>
    ELSE IF Len(parts) = 1 THEN parts[1]
    ELSE parts[1] \o sep \o Join(Tail(parts), sep)

Digit(d) == <<"0", "1", "2", "3", "4", "5", "6", "7", "8", "9">>[d + 1]

RECURSIVE Digits(_)
\* str(n) for an int n >= 0
Digits(n) == IF n < 10 THEN <<Digit(n)>> ELSE Digits(n \div 10) \o <<Digit(n % 10)>>

-----------------------------------------------------------------------------
(* Decoded JSON values, and the outcome of a Python expression over them *)

JNull == [kind |-> "null", num |-> 0, den |-> 1, str |-> <<>>, items |-> <<>>, fields |-> <<>>, exc |-> ""]
JNum(n) == [JNull EXCEPT !.kind = "num", !.num = n]
JFrac(n, d) == [JNull EXCEPT !.kind = "num", !.num = n, !.den = d]
JStr(s) == [JNull EXCEPT !.kind = "str", !.str = s]
JList(xs) == [JNull EXCEPT !.kind = "list", !.items = xs]
\* a dict: its (key, value) pairs in insertion order, keys distinct
JDict(kvs) == [JNull EXCEPT !.kind = "dict", !.fields = kvs]
\* an expression that raised the exception e
Raise(e) == [JNull EXCEPT !.kind = "raise", !.exc = e]

Raised(v) == v.kind = "raise"

HasKey(obj, key) == \E k \in 1..Len(obj.fields) : obj.fields[k][1] = key

Lookup(obj, key) ==
    obj.fields[CHOOSE k \in 1..Len(obj.fields) : obj.fields[k][1] = key][2]

\* obj.get(key, default); an exception raised while evaluating obj propagates
PyGet(obj, key, default) ==
    IF Raised(obj) THEN obj
    ELSE IF obj.kind # "dict" THEN Raise("AttributeError")
    ELSE IF HasKey(obj, key) THEN Lookup(obj, key)
    ELSE default

\* obj[0]
PyIndex0(obj) ==
    IF Raised(obj) THEN obj
    ELSE IF obj.kind = "list"
         THEN IF obj.items = <<>> THEN Raise("IndexError") ELSE obj.items[1]
    ELSE IF obj.kind = "str"
         THEN IF obj.str = <<>> THEN Raise("IndexError") ELSE JStr(<<obj.str[1]>>)
    ELSE IF obj.kind = "dict" THEN Raise("KeyError")
    ELSE Raise("TypeError")

\* len(obj)
PyLen(obj) ==
    IF Raised(obj) THEN obj
    ELSE IF obj.kind = "str" THEN JNum(Len(obj.str))
    ELSE IF obj.kind = "list" THEN JNum(Len(obj.items))
    ELSE IF obj.kind = "dict" THEN JNum(Len(obj.fields))
    ELSE Raise("TypeError")

RECURSIVE PyRepr(_)
\* repr(obj) of a decoded JSON value (integers only; no escapes are needed
\* for the strings of the model)
PyRepr(obj) ==
    IF obj.kind = "null" THEN <<"N", "o", "n", "e">>
    ELSE IF obj.kind = "num" THEN Digits(obj.num)
    ELSE IF obj.kind = "str" THEN <<"'">> \o obj.str \o <<"'">>
    ELSE IF obj.kind = "list"
         THEN <<"[">> \o Join([k \in 1..Len(obj.items) |-> PyRepr(obj.items[k])], <<",", " ">>) \o <<"]">>
    ELSE <<"{">>
         \o Join([k \in 1..Len(obj.fields) |->
                    <<"'">> \o obj.fields[k][1] \o <<"'", ":", " ">> \o PyRepr(obj.fields[k][2])],
                 <<",", " ">>)
         \o <<"}">>

\* str(obj)
PyStr(obj) == IF obj.kind = "str" THEN obj.str ELSE PyRepr(obj)

\* The keys and literals of the request and response schemas
K_content == <<"c", "o", "n", "t", "e", "n", "t">>
K_text == <<"t", "e", "x", "t">>
K_usage == <<"u", "s", "a", "g", "e">>
K_input_tokens == <<"i", "n", "p", "u", "t", "_", "t", "o", "k", "e", "n", "s">>
K_output_tokens == <<"o", "u", "t", "p", "u", "t", "_", "t", "o", "k", "e", "n", "s">>
K_results == <<"r", "e", "s", "u", "l", "t", "s">>
K_outputText == <<"o", "u", "t", "p", "u", "t", "T", "e", "x", "t">>
K_inputTextTokenCount == <<"i", "n", "p", "u", "t", "T", "e", "x", "t", "T", "o", "k", "e", "n", "C", "o", "u", "n", "t">>
K_tokenCount == <<"t", "o", "k", "e", "n", "C", "o", "u", "n", "t">>
K_anthropic_version == <<"a", "n", "t", "h", "r", "o", "p", "i", "c", "_", "v", "e", "r", "s", "i", "o", "n">>
K_max_tokens == <<"m", "a", "x", "_", "t", "o", "k", "e", "n", "s">>
K_messages == <<"m", "e", "s", "s", "a", "g", "e", "s">>
K_role == <<"r", "o", "l", "e">>
K_inputText == <<"i", "n", "p", "u", "t", "T", "e", "x", "t">>
K_textGenerationConfig == <<"t", "e", "x", "t", "G", "e", "n", "e", "r", "a", "t", "i", "o", "n", "C", "o", "n", "f", "i", "g">>
K_maxTokenCount == <<"m", "a", "x", "T", "o", "k", "e", "n", "C", "o", "u", "n", "t">>
K_temperature == <<"t", "e", "m", "p", "e", "r", "a", "t", "u", "r", "e">>
K_prompt == <<"p", "r", "o", "m", "p", "t">>
V_user == <<"u", "s", "e", "r">>
V_bedrock_version == <<"b", "e", "d", "r", "o", "c", "k", "-", "2", "0", "2", "3", "-", "0", "5", "-", "3", "1">>

-----------------------------------------------------------------------------
(* time_operation: the timing wrapper *)

\* time.perf_counter(): the clock, as a float
PerfCounter(ticks) == Fl(ticks, 1)

\* elapsed = end - start, for a call that starts at clock c0 and ends at c1
Elapsed(c0, c1) == FSub(PerfCounter(c1), PerfCounter(c0))

-----------------------------------------------------------------------------
(* invoke_model: the request body *)

RequestBody(mid, prompt, max_tokens) ==
    IF Contains(claude, mid)
    THEN JDict(<< <<K_anthropic_version, JStr(V_bedrock_version)>>,
                  <<K_max_tokens, JNum(max_tokens)>>,
                  <<K_messages,
                    JList(<<JDict(<< <<K_role, JStr(V_user)>>,
                                     <<K_content, JStr(prompt)>> >>)>>)>> >>)
    ELSE IF Contains(titan, mid)
    THEN JDict(<< <<K_inputText, JStr(prompt)>>,
                  <<K_textGenerationConfig,
                    JDict(<< <<K_maxTokenCount, JNum(max_tokens)>>,
                             <<K_temperature, JFrac(7, 10)>> >>)>> >>)
    ELSE JDict(<< <<K_prompt, JStr(prompt)>>, <<K_max_tokens, JNum(max_tokens)>> >>)

-----------------------------------------------------------------------------
(* parse_response *)

\* A raw response: its body either decodes to the JSON value `value` or is
\* not JSON at all.
RawResponse(decodable, value) == [decodable |-> decodable, value |-> value]

\* json.loads(response["body"].read())
JsonLoads(resp) == IF resp.decodable THEN resp.value ELSE Raise("JSONDecodeError")

\* The tuple parse_response returns, or the first exception one of its
\* expressions raises (they are evaluated in the order of the source).
ParseResult(content, input_tokens, output_tokens) ==
    IF Raised(content) THEN [raised |-> content.exc, content |-> JNull,
                             input_tokens |-> JNull, output_tokens |-> JNull]
    ELSE IF Raised(input_tokens) THEN [raised |-> input_tokens.exc, content |-> JNull,
                             input_tokens |-> JNull, output_tokens |-> JNull]
    ELSE IF Raised(output_tokens) THEN [raised |-> output_tokens.exc, content |-> JNull,
                             input_tokens |-> JNull, output_tokens |-> JNull]
    ELSE [raised |-> "", content |-> content,
          input_tokens |-> input_tokens, output_tokens |-> output_tokens]

ClaudeContent(response_body) ==
    PyGet(PyIndex0(PyGet(response_body, K_content, JList(<<JDict(<<>>)>>))), K_text, JStr(<<>>))

TitanContent(response_body) ==
    PyGet(PyIndex0(PyGet(response_body, K_results, JList(<<JDict(<<>>)>>))), K_outputText, JStr(<<>>))

\* Faulty variant: the titan test comes before the claude test
ParseResponse_TitanFirst(resp, mid) ==
    LET response_body == JsonLoads(resp) IN
    IF Raised(response_body) THEN ParseResult(response_body, JNull, JNull)
    ELSE IF Contains(titan, mid)
    THEN ParseResult(
            TitanContent(response_body),
            PyGet(response_body, K_inputTextTokenCount, JNum(0)),
            PyGet(PyIndex0(PyGet(response_body, K_results, JList(<<JDict(<<>>)>>))),
                  K_tokenCount, JNum(0)))
    ELSE IF Contains(claude, mid)
    THEN ParseResult(
            ClaudeContent(response_body),
            PyGet(PyGet(response_body, K_usage, JDict(<<>>)), K_input_tokens, JNum(0)),
            PyGet(PyGet(response_body, K_usage, JDict(<<>>)), K_output_tokens, JNum(0)))
    ELSE ParseResult(JStr(PyStr(response_body)), JNum(0), JNum(0))

ParseResponse(resp, mid) ==
    LET response_body == JsonLoads(resp) IN
    IF Raised(response_body) THEN ParseResult(response_body, JNull, JNull)
    ELSE IF Contains(claude, mid)
    THEN ParseResult(
            ClaudeContent(response_body),
            PyGet(PyGet(response_body, K_usage, JDict(<<>>)), K_input_tokens, JNum(0)),
            PyGet(PyGet(response_body, K_usage, JDict(<<>>)), K_output_tokens, JNum(0)))
    ELSE IF Contains(titan, mid)
    THEN ParseResult(
            TitanContent(response_body),
            PyGet(response_body, K_inputTextTokenCount, JNum(0)),
            PyGet(PyIndex0(PyGet(response_body, K_results, JList(<<JDict(<<>>)>>))),
                  K_tokenCount, JNum(0)))
    ELSE ParseResult(JStr(PyStr(response_body)), JNum(0), JNum(0))

-----------------------------------------------------------------------------
(* Python dicts with string keys: the timing records *)

EmptyDict == <<>>

\* d[k] = v
Put(d, k, v) == [x \in (DOMAIN d) \cup {k} |-> IF x = k THEN v ELSE d[x]]

\* d.get(k, default)
Get(d, k, default) == IF k \in DOMAIN d THEN d[k] ELSE default

-----------------------------------------------------------------------------
(* print_summary *)

MsPerSecond == 1000

metrics == <<"api_call", "response_parse", "total_without_init">>

RECURSIVE Values(_, _)
\* [t[metric] * 1000 for t in ts if metric in t]
Values(ts, metric) ==
    IF ts = <<>> THEN <<>>
    ELSE (IF metric \in DOMAIN Head(ts)
          THEN <<FMul(Head(ts)[metric], MsPerSecond)>> ELSE <<>>)
         \o Values(Tail(ts), metric)

RECURSIVE Insert(_, _)
\* x placed into the ascending sequence s, after the elements equal to it
Insert(x, s) ==
    IF s = <<>> THEN <<x>>
    ELSE IF x < Head(s) THEN <<x>> \o s
    ELSE <<Head(s)>> \o Insert(x, Tail(s))

RECURSIVE Sorted(_)
\* sorted(values)
Sorted(values) ==
    IF values = <<>> THEN <<>>
    ELSE Insert(values[Len(values)], Sorted(SubSeq(values, 1, Len(values) - 1)))

RECURSIVE MinOf(_)
\* min(values), values not empty
MinOf(values) ==
    IF Len(values) = 1 THEN values[1]
    ELSE LET m == MinOf(Tail(values)) IN IF m < values[1] THEN m ELSE values[1]

RECURSIVE MaxOf(_)
\* max(values), values not empty
MaxOf(values) ==
    IF Len(values) = 1 THEN values[1]
    ELSE LET m == MaxOf(Tail(values)) IN IF m > values[1] THEN m ELSE values[1]

RECURSIVE SumFrom(_, _)
\* sum(values): the float additions from left to right, starting from acc
SumFrom(acc, values) ==
    IF values = <<>> THEN acc ELSE SumFrom(FAdd(acc, Head(values)), Tail(values))

Sum(values) == SumFrom(0, values)

\* avg_val = sum(values) / len(values)
Mean(values) == FDiv(Sum(values), Len(values))

\* Faulty variant: the lower of the two middle elements for an even length
Median_Lower(values) == Sorted(values)[((Len(values) - 1) \div 2) + 1]

\* median_val = values_sorted[len(values_sorted) // 2], Python's index from 0
Median(values) == Sorted(values)[(Len(values) \div 2) + 1]

\* f"{x:.2f}" of a float of the model's grid (an integer)
Format2f(x) ==
    (IF x < 0 THEN <<"-">> ELSE <<>>) \o Digits(Abs(x)) \o <<".", "0", "0">>

\* metric.replace("_", " ").title()
Title(metric) ==
    CASE metric = "api_call" -> "Api Call"
      [] metric = "response_parse" -> "Response Parse"
      [] metric = "total_without_init" -> "Total Without Init"

\* The statistics of one metric and the table row made of them
Row(ts, metric) ==
    LET values == Values(ts, metric) IN
    [metric |-> metric, n |-> Len(values),
     min_val |-> MinOf(values), max_val |-> MaxOf(values),
     avg_val |-> Mean(values), median_val |-> Median(values),
     cells |-> <<Title(metric), Format2f(MinOf(values)), Format2f(MaxOf(values)),
                 Format2f(Mean(values)), Format2f(Median(values))>>]

RECURSIVE Rows(_, _)
\* the rows of the table: one per metric that has values
Rows(ts, ms) ==
    IF ms = <<>> THEN <<>>
    ELSE (IF Values(ts, Head(ms)) # <<>> THEN <<Row(ts, Head(ms))>> ELSE <<>>)
         \o Rows(ts, Tail(ms))

RECURSIVE TokenSum(_, _)
\* sum(t[key] for t in ts): None until a value that is no number is added
TokenSum(ts, key) ==
    IF ts = <<>> THEN JNum(0)
    ELSE LET rest == TokenSum(SubSeq(ts, 1, Len(ts) - 1), key)
             last == ts[Len(ts)][key]
         IN  IF Raised(rest) THEN rest
             ELSE IF last.kind # "num" THEN Raise("TypeError")
             ELSE JNum(rest.num + last.num)

\* sum(...) / len(all_timings), as a float
TokenAverage(ts, key) ==
    LET total == TokenSum(ts, key) IN
    IF Raised(total) THEN total
    ELSE IF Len(ts) = 0 THEN Raise("ZeroDivisionError")
    ELSE JNum(Fl(total.num, Len(ts)))

\* What print_summary(ts) prints, and the exception it ends with ("" if none)
PrintSummary(ts) ==
    LET avg_input == TokenAverage(ts, "input_tokens")
        avg_output == TokenAverage(ts, "output_tokens")
    IN  [rows |-> Rows(ts, metrics),
         raised |-> IF Raised(avg_input) THEN avg_input.exc
                    ELSE IF Raised(avg_output) THEN avg_output.exc ELSE "",
         avg_input |-> IF Raised(avg_input) \/ Raised(avg_output) THEN 0 ELSE avg_input.num,
         avg_output |-> IF Raised(avg_input) \/ Raised(avg_output) THEN 0 ELSE avg_output.num]

-----------------------------------------------------------------------------
(* The inputs of a run *)

\* args.prompt and args.max_tokens
Prompt == <<"H", "i">>
MaxTokens == 1000

\* time.sleep(0.5): the clock tick of the model is the length of this delay
SleepTicks == 1

\* The reading of the monotonic clock when the run starts: its reference
\* point is undefined, so it may be zero or far from it
ClockOrigins == {0, Pow2(2 * FloatBits)}

\* How long a call may take, in ticks: client initialisation and the API
\* call a tick or as many ticks as the float format has mantissa values,
\* parsing a tick (less than the clock resolves once the clock is large).
InitTicks == {1, Pow2(FloatBits)}
ApiTicks == {1, Pow2(FloatBits)}
ParseTicks == {1}

\* args.iterations: any integer
IterationValues == (-1)..MaxIterations

\* args.model in a run: a model id of each of the two named families (the
\* ids of FunctionSpec cover the others)
RunModelIds ==
    { <<"u", "s", ".">> \o claude \o <<"-", "v", "1">>,
      <<"a", "m", "a", "z", "o", "n", ".">> \o titan }

Hi == JStr(<<"h", "i">>)

\* What the service may answer in a run: a full body of either family, a
\* body whose token counts are strings, a body whose text is null, and
\* bytes that are not JSON
GoodBody ==
    JDict(<< <<K_content, JList(<<JDict(<< <<K_text, Hi>> >>)>>)>>,
             <<K_usage, JDict(<< <<K_input_tokens, JNum(3)>>, <<K_output_tokens, JNum(4)>> >>)>>,
             <<K_results, JList(<<JDict(<< <<K_outputText, Hi>>, <<K_tokenCount, JNum(4)>> >>)>>)>>,
             <<K_inputTextTokenCount, JNum(3)>> >>)
StringTokenBody ==
    JDict(<< <<K_content, JList(<<JDict(<< <<K_text, Hi>> >>)>>)>>,
             <<K_usage, JDict(<< <<K_input_tokens, Hi>> >>)>>,
             <<K_results, JList(<<JDict(<< <<K_outputText, Hi>> >>)>>)>>,
             <<K_inputTextTokenCount, Hi>> >>)
NullTextBody ==
    JDict(<< <<K_content, JList(<<JDict(<< <<K_text, JNull>> >>)>>)>>,
             <<K_results, JList(<<JDict(<< <<K_outputText, JNull>> >>)>>)>> >>)

RunResponses ==
    { RawResponse(TRUE, GoodBody), RawResponse(TRUE, StringTokenBody),
      RawResponse(TRUE, NullTextBody), RawResponse(FALSE, JNull) }

Unbound == 0
NoExit == -1
NoResponse == RawResponse(FALSE, JNull)
NoParse == ParseResult(Raise("not called"), JNull, JNull)
NoSummary == [rows |-> <<>>, raised |-> "not called", avg_input |-> 0, avg_output |-> 0]

\* A call as the log keeps it: the iteration it was made in, the value of
\* `client` when it was made, whether it returned (ok) or raised, and, for
\* all_timings.append, the record appended
Event(op, ok, rec) == [op |-> op, i |-> i, client |-> client, ok |-> ok, record |-> rec]

-----------------------------------------------------------------------------
(* main and run_timing_test *)

Init ==
    /\ pc = "loop"
    /\ iterations \in IterationValues
    /\ model_id \in RunModelIds
    /\ i = 0
    /\ client = Unbound
    /\ handles = 0
    /\ clock_ns \in ClockOrigins
    /\ request = JNull
    /\ response = NoResponse
    /\ parsed = NoParse
    /\ timings = EmptyDict
    /\ all_timings = <<>>
    /\ summary = NoSummary
    /\ events = <<>>
    /\ exit_code = NoExit

\* Faulty variant: the loop runs once more than asked
LoopHead_OffByOne ==
    /\ pc = "loop"
    /\ IF i <= iterations
       THEN /\ timings' = EmptyDict
            /\ pc' = IF i = 0 THEN "initialize_client" ELSE "invoke_model"
       ELSE /\ pc' = "after_loop"
            /\ UNCHANGED timings
    /\ UNCHANGED <<iterations, model_id, i, client, handles, clock_ns, request,
                   response, parsed, all_timings, summary, events, exit_code>>

\* Faulty variant: the client is initialised in every iteration
LoopHead_InitEveryIteration ==
    /\ pc = "loop"
    /\ IF i < iterations
       THEN /\ timings' = EmptyDict
            /\ pc' = "initialize_client"
       ELSE /\ pc' = "after_loop"
            /\ UNCHANGED timings
    /\ UNCHANGED <<iterations, model_id, i, client, handles, clock_ns, request,
                   response, parsed, all_timings, summary, events, exit_code>>

\* for i in range(iterations): ... timings = {} ... if i == 0:
LoopHead ==
    /\ pc = "loop"
    /\ IF i < iterations
       THEN /\ timings' = EmptyDict
            /\ pc' = IF i = 0 THEN "initialize_client" ELSE "invoke_model"
       ELSE /\ pc' = "after_loop"
            /\ UNCHANGED timings
    /\ UNCHANGED <<iterations, model_id, i, client, handles, clock_ns, request,
                   response, parsed, all_timings, summary, events, exit_code>>

\* client, init_time = initialize_client(region, profile)
InitializeClient ==
    /\ pc = "initialize_client"
    /\ \E d \in InitTicks, ok \in BOOLEAN :
        /\ clock_ns' = clock_ns + d
        /\ events' = Append(events, Event("initialize_client", ok, EmptyDict))
        /\ IF ok
           THEN /\ handles' = handles + 1
                /\ client' = handles + 1
                /\ timings' = Put(timings, "client_init", Elapsed(clock_ns, clock_ns + d))
                /\ pc' = "invoke_model"
           ELSE /\ pc' = "except"
                /\ UNCHANGED <<handles, client, timings>>
    /\ UNCHANGED <<iterations, model_id, i, request, response, parsed,
                   all_timings, summary, exit_code>>

\* Faulty variant: a call that fails is made once more before giving up
InvokeModel_RetryOnce ==
    /\ pc = "invoke_model"
    /\ \E d \in ApiTicks, r \in RunResponses, ok \in BOOLEAN :
            /\ clock_ns' = clock_ns + d
            /\ request' = RequestBody(model_id, Prompt, MaxTokens)
            /\ events' = Append(events, Event("invoke_model", ok, EmptyDict))
            /\ IF ok
               THEN /\ response' = r
                    /\ timings' = Put(timings, "api_call", Elapsed(clock_ns, clock_ns + d))
                    /\ pc' = "parse_response"
               ELSE /\ r = NoResponse
                    /\ pc' = IF \A j \in 1..Len(events) : events[j].ok
                             THEN "invoke_model" ELSE "except"
                    /\ UNCHANGED <<response, timings>>
    /\ UNCHANGED <<iterations, model_id, i, client, handles, parsed,
                   all_timings, summary, exit_code>>

\* response, api_time = invoke_model(client, model_id, prompt, max_tokens)
InvokeModel ==
    /\ pc = "invoke_model"
    /\ IF client = Unbound
       THEN /\ pc' = "except"
            /\ events' = Append(events, Event("invoke_model", FALSE, EmptyDict))
            /\ UNCHANGED <<clock_ns, request, response, timings>>
       ELSE \E d \in ApiTicks, r \in RunResponses, ok \in BOOLEAN :
            /\ clock_ns' = clock_ns + d
            /\ request' = RequestBody(model_id, Prompt, MaxTokens)
            /\ events' = Append(events, Event("invoke_model", ok, EmptyDict))
            /\ IF ok
               THEN /\ response' = r
                    /\ timings' = Put(timings, "api_call", Elapsed(clock_ns, clock_ns + d))
                    /\ pc' = "parse_response"
               ELSE /\ r = NoResponse
                    /\ pc' = "except"
                    /\ UNCHANGED <<response, timings>>
    /\ UNCHANGED <<iterations, model_id, i, client, handles, parsed,
                   all_timings, summary, exit_code>>

\* (content, input_tokens, output_tokens), parse_time = parse_response(...)
ParseResponseStage ==
    /\ pc = "parse_response"
    /\ \E d \in ParseTicks :
        LET result == ParseResponse(response, model_id) IN
        /\ clock_ns' = clock_ns + d
        /\ events' = Append(events, Event("parse_response", result.raised = "", EmptyDict))
        /\ IF result.raised = ""
           THEN /\ parsed' = result
                /\ timings' = Put(timings, "response_parse", Elapsed(clock_ns, clock_ns + d))
                /\ pc' = "record"
           ELSE /\ pc' = "except"
                /\ UNCHANGED <<parsed, timings>>
    /\ UNCHANGED <<iterations, model_id, i, client, handles, request, response,
                   all_timings, summary, exit_code>>

\* Faulty variant: client_init is added to both totals
Totals_InitInBoth(t, p) ==
    LET total == FAdd(FAdd(Get(t, "client_init", 0), t["api_call"]), t["response_parse"])
        t1 == Put(t, "total_with_init", total)
        t2 == Put(t1, "total_without_init", total)
        t3 == Put(t2, "input_tokens", p.input_tokens)
        t4 == Put(t3, "output_tokens", p.output_tokens)
    IN  Put(t4, "response_length", PyLen(p.content).num)

\* The record of the iteration: the totals, the token counts, len(content)
Totals(t, p) ==
    LET t1 == Put(t, "total_with_init",
                  FAdd(FAdd(Get(t, "client_init", 0), t["api_call"]), t["response_parse"]))
        t2 == Put(t1, "total_without_init", FAdd(t["api_call"], t["response_parse"]))
        t3 == Put(t2, "input_tokens", p.input_tokens)
        t4 == Put(t3, "output_tokens", p.output_tokens)
    IN  Put(t4, "response_length", PyLen(p.content).num)

\* Faulty variant: the delay also follows the last iteration
DelayDue_AfterEveryIteration == iterations > 1

\* if iterations > 1 and i < iterations - 1:
DelayDue == iterations > 1 /\ i < iterations - 1

\* timings["total_with_init"] = ... all_timings.append(timings)
Record ==
    /\ pc = "record"
    /\ IF Raised(PyLen(parsed.content))
       THEN /\ pc' = "except"
            /\ events' = Append(events, Event("append", FALSE, EmptyDict))
            /\ UNCHANGED <<timings, all_timings, i>>
       ELSE /\ timings' = Totals(timings, parsed)
            /\ all_timings' = Append(all_timings, Totals(timings, parsed))
            /\ events' = Append(events, Event("append", TRUE, Totals(timings, parsed)))
            /\ pc' = IF DelayDue THEN "sleep" ELSE "loop"
            /\ i' = IF DelayDue THEN i ELSE i + 1
    /\ UNCHANGED <<iterations, model_id, client, handles, clock_ns, request,
                   response, parsed, summary, exit_code>>

\* time.sleep(0.5)
Sleep ==
    /\ pc = "sleep"
    /\ clock_ns' = clock_ns + SleepTicks
    /\ events' = Append(events, Event("sleep", TRUE, EmptyDict))
    /\ i' = i + 1
    /\ pc' = "loop"
    /\ UNCHANGED <<iterations, model_id, client, handles, request, response,
                   parsed, timings, all_timings, summary, exit_code>>

\* Faulty variant: the summary is printed for a single iteration too
AfterLoop_SummaryAlways ==
    /\ pc = "after_loop"
    /\ IF iterations >= 1
       THEN /\ summary' = PrintSummary(all_timings)
            /\ events' = Append(events, Event("print_summary", PrintSummary(all_timings).raised = "", EmptyDict))
            /\ pc' = IF PrintSummary(all_timings).raised = "" THEN "return" ELSE "except"
       ELSE /\ pc' = "return"
            /\ UNCHANGED <<summary, events>>
    /\ UNCHANGED <<iterations, model_id, i, client, handles, clock_ns, request,
                   response, parsed, timings, all_timings, exit_code>>

\* if iterations > 1: print_summary(all_timings) ... return all_timings
AfterLoop ==
    /\ pc = "after_loop"
    /\ IF iterations > 1
       THEN /\ summary' = PrintSummary(all_timings)
            /\ events' = Append(events, Event("print_summary", PrintSummary(all_timings).raised = "", EmptyDict))
            /\ pc' = IF PrintSummary(all_timings).raised = "" THEN "return" ELSE "except"
       ELSE /\ pc' = "return"
            /\ UNCHANGED <<summary, events>>
    /\ UNCHANGED <<iterations, model_id, i, client, handles, clock_ns, request,
                   response, parsed, timings, all_timings, exit_code>>

\* main: return 0
MainReturn ==
    /\ pc = "return"
    /\ exit_code' = 0
    /\ pc' = "exit"
    /\ UNCHANGED <<iterations, model_id, i, client, handles, clock_ns, request,
                   response, parsed, timings, all_timings, summary, events>>

\* Faulty variant: the handler reports the error and returns 0
MainExcept_ReturnsZero ==
    /\ pc = "except"
    /\ exit_code' = 0
    /\ pc' = "exit"
    /\ UNCHANGED <<iterations, model_id, i, client, handles, clock_ns, request,
                   response, parsed, timings, all_timings, summary, events>>

\* main: except Exception as e: ... return 1
MainExcept ==
    /\ pc = "except"
    /\ exit_code' = 1
    /\ pc' = "exit"
    /\ UNCHANGED <<iterations, model_id, i, client, handles, clock_ns, request,
                   response, parsed, timings, all_timings, summary, events>>

Next ==
    \/ LoopHead
    \/ InitializeClient
    \/ InvokeModel
    \/ ParseResponseStage
    \/ Record
    \/ Sleep
    \/ AfterLoop
    \/ MainReturn
    \/ MainExcept

Spec == Init /\ [][Next]_vars

-----------------------------------------------------------------------------
(* invoke_model's request body and parse_response as functions of their    *)
(* arguments: the model id and the response range over bounded sets.       *)

MaxSegments == 2

\* Pieces of model ids: the two family names, pieces that make up a family
\* name only when put together, and pieces that differ from one by case
ModelIdSegments ==
    { claude, titan,
      <<"c", "l", "a", "u">>, <<"d", "e">>, <<"t", "i">>, <<"t", "a", "n">>,
      <<"C", "l", "a", "u", "d", "e">>, <<"v", "1">> }

RECURSIVE Concats(_)
\* the ids made of at most n pieces
Concats(n) ==
    IF n = 0 THEN {<<>>}
    ELSE Concats(n - 1) \cup {a \o b : a \in Concats(n - 1), b \in ModelIdSegments}

ModelIds == Concats(MaxSegments)

\* A key that is there with the value v, or not there at all
Absent == [JNull EXCEPT !.kind = "absent"]
Opt(key, v) == IF v = Absent THEN <<>> ELSE << <<key, v>> >>

ContentValues ==
    { Absent, JNull, JStr(<<>>), Hi, JDict(<<>>), JList(<<>>), JList(<<JNum(5)>>),
      JList(<<JDict(<<>>)>>), JList(<<JDict(<< <<K_text, JNull>> >>)>>),
      JList(<<JDict(<< <<K_text, JStr(<<"c">>)>> >>)>>) }

UsageValues ==
    { Absent, JNull, JList(<<>>), JDict(<<>>),
      JDict(<< <<K_input_tokens, JNum(3)>> >>),
      JDict(<< <<K_input_tokens, JNum(3)>>, <<K_output_tokens, JNum(4)>> >>) }

ResultsValues ==
    { Absent, JNull, JList(<<>>), JList(<<JDict(<<>>)>>),
      JList(<<JDict(<< <<K_outputText, JStr(<<"t">>)>> >>)>>),
      JList(<<JDict(<< <<K_outputText, JStr(<<"t">>)>>, <<K_tokenCount, JNum(4)>> >>)>>) }

TokenCountValues == { Absent, JNull, JNum(3) }

\* The response bodies: dicts with any of the expected fields missing,
\* malformed or well-formed, and JSON values that are no dict
Bodies ==
    { JDict(Opt(K_content, c) \o Opt(K_usage, u) \o Opt(K_results, r)
            \o Opt(K_inputTextTokenCount, n)) :
        c \in ContentValues, u \in UsageValues,
        r \in {Absent, JList(<<JDict(<< <<K_outputText, JStr(<<"t">>)>> >>)>>)},
        n \in {Absent} }
    \cup
    { JDict(Opt(K_results, r) \o Opt(K_inputTextTokenCount, n)) :
        r \in ResultsValues, n \in TokenCountValues }
    \cup { JNull, JNum(1), Hi, JList(<<>>) }

Responses == {RawResponse(TRUE, b) : b \in Bodies} \cup {RawResponse(FALSE, JNull)}

FunctionInit ==
    /\ pc = "call"
    /\ model_id \in ModelIds
    /\ response \in Responses
    /\ iterations = 1
    /\ i = 0
    /\ client = 1
    /\ handles = 1
    /\ clock_ns = 0
    /\ request = JNull
    /\ parsed = NoParse
    /\ timings = EmptyDict
    /\ all_timings = <<>>
    /\ summary = NoSummary
    /\ events = <<>>
    /\ exit_code = NoExit

\* invoke_model up to the call of the client: the body it prepares
BuildRequest ==
    /\ pc = "call"
    /\ request' = RequestBody(model_id, Prompt, MaxTokens)
    /\ pc' = "sent"
    /\ UNCHANGED <<iterations, model_id, i, client, handles, clock_ns, response,
                   parsed, timings, all_timings, summary, events, exit_code>>

\* parse_response(response, model_id)
CallParseResponse ==
    /\ pc = "sent"
    /\ parsed' = ParseResponse(response, model_id)
    /\ pc' = "parsed"
    /\ UNCHANGED <<iterations, model_id, i, client, handles, clock_ns, request,
                   response, timings, all_timings, summary, events, exit_code>>

FunctionNext == BuildRequest \/ CallParseResponse

FunctionSpec == FunctionInit /\ [][FunctionNext]_vars

-----------------------------------------------------------------------------
(* print_summary as a function of the list it is given *)

\* The durations of the records given to print_summary
SummaryDurations == {0, 3, 7}

\* A record as an iteration builds it from its two measured durations
TimingRecord(api, parse) ==
    Totals(Put(Put(EmptyDict, "api_call", api), "response_parse", parse),
           ParseResult(Hi, JNum(3), JNum(4)))

TimingRecords == {TimingRecord(a, p) : a \in SummaryDurations, p \in SummaryDurations}

RECURSIVE ListsOf(_, _)
\* the lists of exactly n elements of S
ListsOf(S, n) ==
    IF n = 0 THEN {<<>>} ELSE {Append(l, x) : l \in ListsOf(S, n - 1), x \in S}

TimingLists == UNION {ListsOf(TimingRecords, n) : n \in 1..MaxIterations}

SummaryInit ==
    /\ pc = "call"
    /\ all_timings \in TimingLists
    /\ model_id = claude
    /\ response = NoResponse
    /\ iterations = Len(all_timings)
    /\ i = Len(all_timings)
    /\ client = 1
    /\ handles = 1
    /\ clock_ns = 0
    /\ request = JNull
    /\ parsed = NoParse
    /\ timings = EmptyDict
    /\ summary = NoSummary
    /\ events = <<>>
    /\ exit_code = NoExit

\* print_summary(all_timings)
CallPrintSummary ==
    /\ pc = "call"
    /\ summary' = PrintSummary(all_timings)
    /\ pc' = "printed"
    /\ UNCHANGED <<iterations, model_id, i, client, handles, clock_ns, request,
                   response, parsed, timings, all_timings, events, exit_code>>

SummaryNext == CallPrintSummary

SummarySpec == SummaryInit /\ [][SummaryNext]_vars

-----------------------------------------------------------------------------
(* Reading the log of calls *)

Stages == {"initialize_client", "invoke_model", "parse_response"}

Positions(op) == {j \in 1..Len(events) : events[j].op = op}

\* The positions of the records appended, in order
Appends == {j \in 1..Len(events) : events[j].op = "append" /\ events[j].ok}

\* The positions of the calls that raised
Failures == {j \in 1..Len(events) : ~events[j].ok}

\* The k-th smallest element of a set of positions
RECURSIVE Nth(_, _)
Nth(S, k) ==
    LET m == CHOOSE x \in S : \A y \in S : x <= y
    IN  IF k = 1 THEN m ELSE Nth(S \ {m}, k - 1)

\* The loop of run_timing_test has ended without an exception
LoopDone ==
    \/ pc \in {"after_loop", "return"}
    \/ Positions("print_summary") # {}
    \/ pc = "exit" /\ exit_code = 0

\* run_timing_test has returned all_timings
RunReturned == pc = "return" \/ (pc = "exit" /\ exit_code = 0)

-----------------------------------------------------------------------------
(* C1: for every N >= 1, once the loop of a run has ended without an       *)
(* exception (in particular when run_timing_test returns), all_timings     *)
(* holds exactly N records, record k being the one iteration k appended,   *)
(* and client_init is a key of record 0 and of no other record.            *)
C1_NRecordsInOrder ==
    (iterations >= 1 /\ LoopDone) =>
        /\ Len(all_timings) = iterations
        /\ Cardinality(Appends) = iterations
        /\ \A k \in 1..Len(all_timings) :
            /\ events[Nth(Appends, k)].i = k - 1
            /\ all_timings[k] = events[Nth(Appends, k)].record
            /\ ("client_init" \in DOMAIN all_timings[k]) <=> (k = 1)

C1_Witness ==
    /\ RunReturned
    /\ iterations = 3
    /\ Len(all_timings) = 3
    /\ "client_init" \in DOMAIN all_timings[1]
    /\ "client_init" \notin DOMAIN all_timings[3]

-----------------------------------------------------------------------------
(* C2: if a stage (initialize_client, invoke_model, parse_response) raises *)
(* in iteration k, it is the last call of the run: nothing of iteration k  *)
(* or of a later iteration runs after it, it is not called again, no       *)
(* record of iteration k is appended, and all_timings holds exactly the    *)
(* records that iterations 0..k-1 appended, as they were appended.         *)
C2_FailureHaltsLoop ==
    \A j \in Failures :
        events[j].op \in Stages =>
            /\ j = Len(events)
            /\ pc \in {"except", "exit"}
            /\ Len(all_timings) = events[j].i
            /\ Cardinality(Appends) = events[j].i
            /\ \A k \in 1..Len(all_timings) :
                /\ events[Nth(Appends, k)].i = k - 1
                /\ all_timings[k] = events[Nth(Appends, k)].record

C2_Witness ==
    /\ pc = "exit"
    /\ iterations = 3
    /\ Len(events) > 0
    /\ events[Len(events)].op = "invoke_model"
    /\ ~events[Len(events)].ok
    /\ events[Len(events)].i = 2
    /\ Len(all_timings) = 2

-----------------------------------------------------------------------------
(* C3: for every integer value of iterations and every outcome of the      *)
(* calls, main returns 0 exactly when nothing raised during the run (the   *)
(* iterations and the summary), 1 exactly when something raised, and       *)
(* nothing else.                                                           *)
C3_ExitCode ==
    /\ pc # "exit" => exit_code = NoExit
    /\ pc = "exit" =>
        /\ exit_code \in {0, 1}
        /\ (exit_code = 0) <=> (Failures = {})
        /\ (exit_code = 1) <=> (Failures # {})

C3_Witness ==
    /\ pc = "exit"
    /\ exit_code = 1
    /\ events[Len(events)].op = "print_summary"
    /\ Cardinality(Failures) = 1

-----------------------------------------------------------------------------
(* C4: print_summary is called at most once; it is called only when        *)
(* iterations > 1 and all N records have been appended, with those N       *)
(* records, after the N-th append and nothing after it; and once the loop  *)
(* of a run with iterations > 1 is left without an exception it has been   *)
(* called.  It is never called for N = 1 nor after a failed iteration.     *)
C4_SummaryOnlyOnFullRun ==
    /\ Cardinality(Positions("print_summary")) <= 1
    /\ \A j \in Positions("print_summary") :
        /\ iterations > 1
        /\ j = Len(events)
        /\ Len(all_timings) = iterations
        /\ Cardinality({a \in Appends : a < j}) = iterations
        /\ \A f \in Failures : f >= j
        /\ \A r \in 1..Len(summary.rows) : summary.rows[r].n = iterations
    /\ (iterations > 1 /\ Cardinality(Appends) = iterations /\ pc \in {"return", "except", "exit"})
            => Cardinality(Positions("print_summary")) = 1
    /\ (iterations <= 1 \/ Cardinality(Appends) < iterations)
            => Positions("print_summary") = {}

C4_Witness ==
    /\ pc = "exit"
    /\ iterations = 3
    /\ Cardinality(Positions("print_summary")) = 1
    /\ Len(summary.rows) = 3

-----------------------------------------------------------------------------
(* C9: the delay comes right after the append of an iteration i <= N-2 and *)
(* before any call of iteration i+1, never after the last append nor       *)
(* before the summary nor after a failure; a run of N >= 1 iterations that *)
(* leaves its loop without an exception has slept exactly N-1 times.       *)
C9_DelayBetweenIterations ==
    /\ \A j \in Positions("sleep") :
        /\ j > 1
        /\ events[j - 1].op = "append" /\ events[j - 1].ok
        /\ events[j - 1].i = events[j].i
        /\ events[j].i <= iterations - 2
        /\ j < Len(events) =>
            /\ events[j + 1].op = "invoke_model"
            /\ events[j + 1].i = events[j].i + 1
    /\ \A a \in Appends :
        a < Len(events) =>
            IF events[a].i <= iterations - 2
            THEN events[a + 1].op = "sleep"
            ELSE events[a + 1].op = "print_summary"
    /\ \A a \in Appends :
        (a = Len(events) /\ events[a].i <= iterations - 2) => pc = "sleep"
    /\ \A f \in Failures : \A j \in Positions("sleep") : j < f
    /\ (iterations >= 1 /\ LoopDone) =>
            Cardinality(Positions("sleep")) = iterations - 1

C9_Witness ==
    /\ pc = "exit"
    /\ exit_code = 0
    /\ iterations = 3
    /\ Cardinality(Positions("sleep")) = 2

-----------------------------------------------------------------------------
(* C10: the calls of an iteration come in the order initialize_client      *)
(* (iteration 0 only), invoke_model, parse_response, append; the first     *)
(* call of iteration i+1 comes after the append of iteration i;            *)
(* initialize_client is called at most once, before every invoke_model,   *)
(* and every invoke_model gets the client that call returned.              *)
C10_StageOrder ==
    /\ Cardinality(Positions("initialize_client")) <= 1
    /\ handles <= 1
    /\ \A j \in Positions("initialize_client") : j = 1 /\ events[j].i = 0
    /\ \A j \in Positions("invoke_model") :
        /\ j > 1
        /\ events[j].i = 0 =>
            /\ events[j - 1].op = "initialize_client" /\ events[j - 1].ok
        /\ events[j].i > 0 =>
            /\ events[j - 1].op = "sleep"
            /\ events[j - 1].i = events[j].i - 1
            /\ events[j - 2].op = "append" /\ events[j - 2].ok
            /\ events[j - 2].i = events[j].i - 1
        /\ events[j].client # Unbound
        /\ events[j].client = handles
        /\ events[j].client = client
    /\ \A j \in Positions("parse_response") :
        /\ j > 1
        /\ events[j - 1].op = "invoke_model" /\ events[j - 1].ok
        /\ events[j - 1].i = events[j].i
    /\ \A j \in Positions("append") :
        /\ j > 1
        /\ events[j - 1].op = "parse_response" /\ events[j - 1].ok
        /\ events[j - 1].i = events[j].i

C10_Witness ==
    /\ pc = "exit"
    /\ exit_code = 0
    /\ iterations = 3
    /\ Cardinality(Positions("invoke_model")) = 3
    /\ Cardinality(Positions("initialize_client")) = 1

-----------------------------------------------------------------------------
(* C8 as claimed: every record of all_timings has total_without_init =     *)
(* api_call + response_parse and total_with_init = total_without_init +    *)
(* client_init (0 when the record has none), the sums being Python's; all  *)
(* durations are >= 0 and total_without_init <= total_with_init.           *)
DurationsOf(r) ==
    {r[k] : k \in (DOMAIN r) \cap {"client_init", "api_call", "response_parse",
                                   "total_with_init", "total_without_init"}}

C8_TotalsExact ==
    \A k \in 1..Len(all_timings) :
        LET r == all_timings[k] IN
        /\ r["total_without_init"] = FAdd(r["api_call"], r["response_parse"])
        /\ r["total_with_init"] = FAdd(r["total_without_init"], Get(r, "client_init", 0))
        /\ \A x \in DurationsOf(r) : x >= 0
        /\ r["total_without_init"] <= r["total_with_init"]

(* C8 as amended: total_without_init is the float sum api_call +           *)
(* response_parse and total_with_init the float sum (client_init +         *)
(* api_call) + response_parse, client_init being 0 when the record has     *)
(* none, so that the two totals are equal in a record without client_init; *)
(* total_with_init differs from total_without_init + client_init by at     *)
(* most the rounding of the additions (a relative difference of at most    *)
(* 8 * 2^-p for floats of p bits) and is not always equal to it; all       *)
(* durations are >= 0 and total_without_init <= total_with_init.           *)
C8_TotalsWithinRounding ==
    \A k \in 1..Len(all_timings) :
        LET r == all_timings[k] IN
        /\ r["total_without_init"] = FAdd(r["api_call"], r["response_parse"])
        /\ r["total_with_init"] =
              FAdd(FAdd(Get(r, "client_init", 0), r["api_call"]), r["response_parse"])
        /\ "client_init" \notin DOMAIN r => r["total_with_init"] = r["total_without_init"]
        /\ Abs(r["total_with_init"] - FAdd(r["total_without_init"], Get(r, "client_init", 0)))
              * Pow2(FloatBits) <= 8 * r["total_with_init"]
        /\ \A x \in DurationsOf(r) : x >= 0
        /\ r["total_without_init"] <= r["total_with_init"]

C8_Witness ==
    \E k \in 1..Len(all_timings) :
        LET r == all_timings[k] IN
        /\ "client_init" \in DOMAIN r
        /\ r["client_init"] > 0 /\ r["api_call"] > 0 /\ r["response_parse"] > 0
        /\ r["total_with_init"] = FAdd(r["total_without_init"], r["client_init"])
        /\ Len(all_timings) > 1

-----------------------------------------------------------------------------
(* C5 as claimed: for a model id containing "claude" or "titan" and a      *)
(* response body that decodes as JSON, parse_response raises nothing, and  *)
(* returns "" and 0 for the fields the body does not have.                 *)
C5_DecodableNeverRaises ==
    (/\ pc = "parsed"
     /\ Contains(claude, model_id) \/ Contains(titan, model_id)
     /\ response.decodable)
    => /\ parsed.raised = ""
       /\ ~HasKey(response.value, K_content) /\ ~HasKey(response.value, K_results)
            => parsed.content = JStr(<<>>)
       /\ ~HasKey(response.value, K_usage) /\ ~HasKey(response.value, K_inputTextTokenCount)
            => parsed.input_tokens = JNum(0)

-----------------------------------------------------------------------------
(* The family a request body or a parse result belongs to *)

RequestVariant(req) ==
    IF HasKey(req, K_messages) THEN "claude"
    ELSE IF HasKey(req, K_inputText) THEN "titan"
    ELSE IF HasKey(req, K_prompt) THEN "generic"
    ELSE "none"

\* A body that holds the text "c" where the claude variant reads it, the
\* text "t" where the titan variant reads it, and nothing else
ProbeBody ==
    JDict(<< <<K_content, JList(<<JDict(<< <<K_text, JStr(<<"c">>)>> >>)>>)>>,
             <<K_results, JList(<<JDict(<< <<K_outputText, JStr(<<"t">>)>> >>)>>)>> >>)

IsProbe(resp) == resp = RawResponse(TRUE, ProbeBody)

\* The variant parse_response read a probe body with
ParsedVariant(p) ==
    IF p.raised # "" THEN "none"
    ELSE IF p.content = JStr(<<"c">>) THEN "claude"
    ELSE IF p.content = JStr(<<"t">>) THEN "titan"
    ELSE "generic"

(* C7 as claimed: the request body has a messages field when the model id  *)
(* contains "claude", an inputText field when it contains "titan", a       *)
(* prompt field for any other id; parse_response reads the response with   *)
(* the variant of the request that was sent.                               *)
C7_DispatchBySubstring ==
    pc = "parsed" =>
        /\ Contains(claude, model_id) => HasKey(request, K_messages)
        /\ Contains(titan, model_id) => HasKey(request, K_inputText)
        /\ (~Contains(claude, model_id) /\ ~Contains(titan, model_id)) => HasKey(request, K_prompt)
        /\ IsProbe(response) => ParsedVariant(parsed) = RequestVariant(request)

(* C7 as amended: the request body has a messages field exactly when the   *)
(* model id contains "claude", an inputText field exactly when it contains *)
(* "titan" and not "claude", a prompt field exactly when it contains       *)
(* neither; parse_response reads the response with the variant of the      *)
(* request that was sent.                                                  *)
C7_DispatchClaudeFirst ==
    pc = "parsed" =>
        /\ HasKey(request, K_messages) <=> Contains(claude, model_id)
        /\ HasKey(request, K_inputText) <=>
              (Contains(titan, model_id) /\ ~Contains(claude, model_id))
        /\ HasKey(request, K_prompt) <=>
              (~Contains(claude, model_id) /\ ~Contains(titan, model_id))
        /\ IsProbe(response) => ParsedVariant(parsed) = RequestVariant(request)

C7_Witness ==
    /\ pc = "parsed"
    /\ Contains(claude, model_id) /\ Contains(titan, model_id)
    /\ IsProbe(response)
    /\ ParsedVariant(parsed) = "claude"
    /\ HasKey(request, K_messages)

-----------------------------------------------------------------------------
(* The statistics of print_summary, stated without its helpers *)

\* The values of a metric over all the records, in milliseconds
MsValues(metric) ==
    [k \in 1..Len(all_timings) |-> FMul(all_timings[k][metric], MsPerSecond)]

\* The float sum of the first k values, added from left to right
RECURSIVE PartialSum(_, _)
PartialSum(v, k) == IF k = 0 THEN 0 ELSE FAdd(PartialSum(v, k - 1), v[k])

\* x is the element at index floor(N / 2), counting from 0, of v sorted
\* ascending: at most floor(N / 2) values are below it and more than
\* floor(N / 2) are not above it
IsUpperMedian(x, v) ==
    /\ \E k \in DOMAIN v : v[k] = x
    /\ Cardinality({k \in DOMAIN v : v[k] < x}) <= Len(v) \div 2
    /\ Cardinality({k \in DOMAIN v : v[k] <= x}) > Len(v) \div 2

StatsAsComputed(row, v) ==
    /\ row.n = Len(all_timings)
    /\ \E k \in DOMAIN v : v[k] = row.min_val
    /\ \A k \in DOMAIN v : row.min_val <= v[k]
    /\ \E k \in DOMAIN v : v[k] = row.max_val
    /\ \A k \in DOMAIN v : v[k] <= row.max_val
    /\ row.avg_val = FDiv(PartialSum(v, Len(v)), Len(v))
    /\ IsUpperMedian(row.median_val, v)
    /\ row.min_val <= row.median_val /\ row.median_val <= row.max_val

AllEqual(v) == \A k \in DOMAIN v : v[k] = v[1]

=============================================================================
